---------------------------- MODULE Spec2Model ----------------------------
(***************************************************************************)
(* A model of the AI-Gateway labs.                                         *)
(*                                                                         *)
(* Part I  - the A2A weather agent server (a2a_agents.py, a2a_agent_exec.py*)
(*           and build_app): the SemanticKernelAgent with its conversation *)
(*           thread, the streaming generator, the A2A executor and the     *)
(*           application's startup / shutdown hooks.                       *)
(* Part II - the notebooks, run cell by cell against the Azure CLI.        *)
(***************************************************************************)
EXTENDS Integers, Sequences, FiniteSets, TLC

(***************************************************************************)
(* Bounds of the model.                                                    *)
(***************************************************************************)
MaxCalls == 2         \* requests (invoke or execute) served in one run
MaxChunk == 2         \* tokens one streamed text chunk may carry
MaxRuns == 3          \* notebook runs (Run All) in one behaviour

Sessions == {"s1", "s2"}
Statuses == {"input_required", "completed", "error"}

\* The user inputs: a question the model answers by asking for more, one it
\* completes and one it fails on.
Inputs == {"q_more", "q_done", "q_fail"}
StatusOf == [q_more |-> "input_required", q_done |-> "completed", q_fail |-> "error"]

None == [none |-> TRUE]

VARIABLES
    \* ---- build_app / SemanticKernelAgent ----
    phase,              \* "built", "running" (after startup), "stopped"
    mcp_plugin,         \* None or the MCPSsePlugin built by __aenter__
    agent,              \* None or the ChatCompletionAgent
    thread,             \* None or the ChatHistoryAgentThread: [oid, id, history]
    nextOid,            \* identity of the next thread object constructed
    deleted,            \* identities of the thread objects whose delete() ran
    pluginExits,        \* how often the plugin's __aexit__ ran
    httpx_closed,       \* httpx_client.aclose() ran
    calls,              \* requests served so far
    \* ---- observations of calls ----
    lastEnsure,         \* the latest _ensure_thread_exists: session, before, after
    lastInvoke,         \* the latest invoke: input, session, the model's reply, answer
    prevInvoke,         \* the invoke before it
    \* ---- SemanticKernelAgent.stream, one generator in flight ----
    streamPc,           \* "idle", "running", "done", "raised"
    plugin_notice_seen,
    plugin_event,
    text_notice_seen,
    chunks,             \* the generator's list of text-bearing chunks
    toSend,             \* the text the model has still to stream
    arrived,            \* the text fragments in the order the service sent them
    yielded,            \* the items the generator has yielded
    \* ---- A2ALabAgentExecutor ----
    task,               \* the task of the request being executed
    event_queue,        \* the events enqueued for the current request
    raised              \* the exception the latest executor call raised

agentVars == <<phase, mcp_plugin, agent, thread, nextOid, deleted, pluginExits,
               httpx_closed, calls, lastEnsure, lastInvoke, prevInvoke>>
streamVars == <<streamPc, plugin_notice_seen, plugin_event, text_notice_seen,
                chunks, toSend, arrived, yielded>>
execVars == <<task, event_queue, raised>>
serverVars == <<agentVars, streamVars, execVars>>

VARIABLES
    \* ---- the notebook being run and its kernel ----
    nb,                 \* the notebook of the current (or latest) run, "none" before
    cell,               \* index of the next code cell to run
    state,              \* "idle", "running", "done", "failed"
    error,              \* the exception that stopped the run
    kernel,             \* the names defined in the kernel
    fresh,              \* the run started on a restarted kernel
    runs,               \* runs started so far
    openai_resources,   \* len(openai_resources) as the init cell set it
    backend_id,         \* value of backend_id where the kernel defines it
    bicep_parameters,   \* value of bicep_parameters where the kernel defines it
    \* ---- files and Azure ----
    policy_file,        \* prompt-flow: the text of policy.xml
    policy,             \* last policy applied to github-mcp sse / messages
    \* ---- observations of the run ----
    log,                \* phases and steps in the order they were started
    proto,              \* steps of the latest cell that obtained outputs
    issued,             \* deployment commands issued in this run
    lastPfDeploy,       \* outcome of the latest prompt-flow deployment cell
    policyAtOpen,       \* the github-mcp policies when the run started
    connected           \* the policies in force when list_tools connected

nbVars == <<nb, cell, state, error, kernel, fresh, runs, openai_resources,
            backend_id, bicep_parameters, policy_file, policy, log, proto, issued,
            lastPfDeploy,
            policyAtOpen, connected>>

vars == <<serverVars, nbVars>>

(***************************************************************************)
(* ResponseFormat and its JSON text.                                       *)
(***************************************************************************)
ResponseFormat(status, message) == [status |-> status, message |-> message]

\* model_dump_json: the JSON document, as its sequence of tokens.
Serialize(r) == <<"{", r.status, r.message, "}">>

ValidationError == [error |-> "ValidationError"]

\* ResponseFormat.model_validate_json: the document parses only when it is
\* complete, its keys are in place and its status is one of the literals.
model_validate_json(text) ==
    IF /\ Len(text) = 4
       /\ text[1] = "{" /\ text[4] = "}"
       /\ text[2] \in Statuses
    THEN ResponseFormat(text[2], text[3])
    ELSE ValidationError

\* The chat model behind agent.get_response / agent.invoke_stream: its reply is
\* a function of the new user input and of the thread's history.
LLM(user_input, history) ==
    ResponseFormat(StatusOf[user_input], ToString(Append(history, user_input)))

(***************************************************************************)
(* SemanticKernelAgent._get_agent_response                                 *)
(***************************************************************************)
default_response ==
    [is_task_complete |-> FALSE, require_user_input |-> TRUE,
     content |-> "We are unable to process your request at the moment. Please try again."]

response_map_error_completes ==
    [input_required |-> [is_task_complete |-> FALSE, require_user_input |-> TRUE],
     error          |-> [is_task_complete |-> TRUE,  require_user_input |-> TRUE],
     completed      |-> [is_task_complete |-> TRUE,  require_user_input |-> FALSE]]

response_map ==
    [input_required |-> [is_task_complete |-> FALSE, require_user_input |-> TRUE],
     error          |-> [is_task_complete |-> FALSE, require_user_input |-> TRUE],
     completed      |-> [is_task_complete |-> TRUE,  require_user_input |-> FALSE]]

\* Returns [ok |-> TRUE, value |-> the dictionary], or [ok |-> FALSE] when
\* model_validate_json raises.
get_agent_response(content) ==
    LET structured_response == model_validate_json(content) IN
    IF structured_response = ValidationError
    THEN [ok |-> FALSE]
    ELSE IF structured_response.status \in DOMAIN response_map
         THEN [ok |-> TRUE,
               value |-> [is_task_complete |->
                              response_map[structured_response.status].is_task_complete,
                          require_user_input |->
                              response_map[structured_response.status].require_user_input,
                          content |-> structured_response.message]]
         ELSE [ok |-> TRUE, value |-> default_response]

(***************************************************************************)
(* SemanticKernelAgent._ensure_thread_exists                               *)
(***************************************************************************)
\* As _ensure_thread_exists, had it only tested `self.thread is None`.
ensure_thread_exists_only_if_none(t, session_id, oid) ==
    IF t = None
    THEN [thread  |-> [oid |-> oid, id |-> session_id, history |-> <<>>],
          deleted |-> {}]
    ELSE [thread |-> t, deleted |-> {}]

\* The thread after the call, and the thread objects the call deleted.
ensure_thread_exists(t, session_id, oid) ==
    IF t = None \/ t.id # session_id
    THEN [thread  |-> [oid |-> oid, id |-> session_id, history |-> <<>>],
          deleted |-> IF t # None THEN {t.oid} ELSE {}]
    ELSE [thread |-> t, deleted |-> {}]

\* agent.get_response / invoke_stream add the user message to the thread they
\* are given and answer from the history that thread held.
get_response(t, user_input) ==
    [thread  |-> [t EXCEPT !.history = Append(@, user_input)],
     content |-> Serialize(LLM(user_input, t.history))]

\* What _ensure_thread_exists did, for the record of the latest call.
EnsureRecord(session_id, before, e) ==
    [session |-> session_id,
     before  |-> IF before = None THEN None ELSE [oid |-> before.oid, id |-> before.id],
     after   |-> IF e.thread = None THEN None
                 ELSE [oid |-> e.thread.oid, id |-> e.thread.id],
     deleted |-> e.deleted]

(***************************************************************************)
(* Initial state: build_app has returned, nothing has been started.        *)
(***************************************************************************)
InitAgent ==
    /\ phase = "built"
    /\ mcp_plugin = None
    /\ agent = None
    /\ thread = None
    /\ nextOid = 1
    /\ deleted = {}
    /\ pluginExits = 0
    /\ httpx_closed = FALSE
    /\ calls = 0
    /\ lastEnsure = None
    /\ lastInvoke = None
    /\ prevInvoke = None

InitStream ==
    /\ streamPc = "idle"
    /\ plugin_notice_seen = FALSE
    /\ plugin_event = FALSE
    /\ text_notice_seen = FALSE
    /\ chunks = <<>>
    /\ toSend = <<>>
    /\ arrived = <<>>
    /\ yielded = <<>>

InitExec ==
    /\ task = None
    /\ event_queue = <<>>
    /\ raised = "none"

\* policy.xml as the repository ships it: a template with a placeholder.
\* The file is text; it is modelled as its sequence of tokens.
Template == <<"<set-backend-service backend-id=", "{backend-id}", "/>",
              "<retry backend-id=", "{backend-id}", "/>">>

\* What the Bicep template leaves on an operation, before any notebook cell
\* changes it.
DeployedPolicy == "as-deployed"

InitNotebooks ==
    /\ nb = "none"
    /\ cell = 0
    /\ state = "idle"
    /\ error = "none"
    /\ kernel = {}
    /\ fresh = TRUE
    /\ runs = 0
    /\ openai_resources = 0
    /\ backend_id = ""
    /\ bicep_parameters = None
    /\ policy_file = Template
    /\ policy = [sse |-> DeployedPolicy, messages |-> DeployedPolicy]
    /\ log = <<>>
    /\ proto = <<>>
    /\ issued = <<>>
    /\ lastPfDeploy = None
    /\ policyAtOpen = None
    /\ connected = None

Init == InitAgent /\ InitStream /\ InitExec /\ InitNotebooks

(***************************************************************************)
(* build_app: the startup and shutdown hooks.                              *)
(***************************************************************************)
\* SemanticKernelAgent.__aenter__
aenter ==
    /\ mcp_plugin' = [name |-> "Weather", open |-> TRUE]
    /\ agent' = [name |-> "Weather_agent", plugins |-> {"Weather"}]

\* As __aexit__, had it closed the plugin and left the thread alone.
aexit_plugin_only ==
    /\ UNCHANGED <<thread, deleted>>
    /\ IF mcp_plugin # None
       THEN mcp_plugin' = [mcp_plugin EXCEPT !.open = FALSE]
            /\ pluginExits' = pluginExits + 1
       ELSE UNCHANGED <<mcp_plugin, pluginExits>>

\* SemanticKernelAgent.__aexit__
aexit ==
    /\ IF thread # None
       THEN thread' = None /\ deleted' = deleted \cup {thread.oid}
       ELSE UNCHANGED <<thread, deleted>>
    /\ IF mcp_plugin # None
       THEN mcp_plugin' = [mcp_plugin EXCEPT !.open = FALSE]
            /\ pluginExits' = pluginExits + 1
       ELSE UNCHANGED <<mcp_plugin, pluginExits>>

startup ==
    /\ phase = "built"
    /\ aenter
    /\ phase' = "running"
    /\ UNCHANGED <<thread, nextOid, deleted, pluginExits, httpx_closed, calls,
                   lastEnsure, lastInvoke, prevInvoke>>
    /\ UNCHANGED <<streamVars, execVars>>
    /\ UNCHANGED nbVars

shutdown ==
    /\ phase = "running"
    /\ streamPc = "idle"
    /\ aexit
    /\ httpx_closed' = TRUE
    /\ phase' = "stopped"
    /\ UNCHANGED <<agent, nextOid, calls, lastEnsure, lastInvoke, prevInvoke>>
    /\ UNCHANGED <<streamVars, execVars>>
    /\ UNCHANGED nbVars

(***************************************************************************)
(* SemanticKernelAgent.invoke                                              *)
(***************************************************************************)
invoke(user_input, session_id) ==
    /\ phase = "running"
    /\ streamPc = "idle"
    /\ calls < MaxCalls
    /\ calls' = calls + 1
    /\ LET e == ensure_thread_exists(thread, session_id, nextOid)
           response == get_response(e.thread, user_input)
           answer == get_agent_response(response.content)
       IN /\ thread' = response.thread
          /\ nextOid' = IF e.thread # thread THEN nextOid + 1 ELSE nextOid
          /\ deleted' = deleted \cup e.deleted
          /\ lastEnsure' = EnsureRecord(session_id, thread, e)
          /\ lastInvoke' = [user_input |-> user_input, session_id |-> session_id,
                            reply |-> LLM(user_input, e.thread.history),
                            answer |-> answer]
          /\ prevInvoke' = lastInvoke
    /\ UNCHANGED <<phase, mcp_plugin, agent, pluginExits, httpx_closed>>
    /\ UNCHANGED <<streamVars, execVars>>
    /\ UNCHANGED nbVars

(***************************************************************************)
(* SemanticKernelAgent.stream, driven by A2ALabAgentExecutor.execute.      *)
(***************************************************************************)
ProcessingNotice ==
    [is_task_complete |-> FALSE, require_user_input |-> FALSE,
     content |-> "Processing function calls..."]

BuildingNotice ==
    [is_task_complete |-> FALSE, require_user_input |-> FALSE,
     content |-> "Building the output..."]

\* sum(chunks[1:], chunks[0]): the chunks added up from the first to the last.
RECURSIVE sum_from(_, _, _)
sum_from(cs, i, acc) ==
    IF i > Len(cs) THEN acc ELSE sum_from(cs, i + 1, acc \o cs[i])

\* As sum, had it added each chunk in front of the ones before it.
RECURSIVE sum_reversed(_)
sum_reversed(cs) ==
    IF Len(cs) = 1 THEN cs[1] ELSE sum_reversed(Tail(cs)) \o cs[1]

sum_chunks(cs) == sum_from(cs, 2, cs[1])

\* The events execute enqueues for one item the generator yields.
events_for(partial, t) ==
    IF partial.require_user_input
    THEN << [kind |-> "status", state |-> "input_required", final |-> TRUE,
             text |-> partial.content, contextId |-> t.contextId, taskId |-> t.id] >>
    ELSE IF partial.is_task_complete
    THEN << [kind |-> "artifact", state |-> "current_result", final |-> TRUE,
             text |-> partial.content, contextId |-> t.contextId, taskId |-> t.id],
            [kind |-> "status", state |-> "completed", final |-> TRUE,
             text |-> "", contextId |-> t.contextId, taskId |-> t.id] >>
    ELSE << [kind |-> "status", state |-> "working", final |-> FALSE,
             text |-> partial.content, contextId |-> t.contextId, taskId |-> t.id] >>

RECURSIVE events_of(_, _)
events_of(items, t) ==
    IF items = <<>> THEN <<>>
    ELSE events_for(Head(items), t) \o events_of(Tail(items), t)

\* The generator yields items and execute's loop body enqueues their events.
yield(items) ==
    /\ yielded' = yielded \o items
    /\ event_queue' = event_queue \o events_of(items, task)

\* The tasks a request context may carry as current_task, and new_task's task
\* for a message of the given context.
KnownTasks == {[id |-> "task-1", contextId |-> s] : s \in Sessions}
new_task(contextId) == [id |-> "task-new", contextId |-> contextId]

\* execute up to the first suspension of `async for partial in agent.stream`.
execute(user_input, current_task, contextId) ==
    /\ phase = "running"
    /\ streamPc = "idle"
    /\ LET t == IF current_task = None
                THEN new_task(contextId)
                ELSE current_task
           e == ensure_thread_exists(thread, t.contextId, nextOid)
           response == get_response(e.thread, user_input)
       IN /\ calls < MaxCalls
          /\ calls' = calls + 1
          /\ current_task # None => contextId = current_task.contextId
          /\ task' = t
          /\ event_queue' = IF current_task = None
                            THEN << [kind |-> "task", state |-> "submitted",
                                     final |-> FALSE, text |-> user_input,
                                     contextId |-> t.contextId, taskId |-> t.id] >>
                            ELSE <<>>
          /\ thread' = response.thread
          /\ nextOid' = IF e.thread # thread THEN nextOid + 1 ELSE nextOid
          /\ deleted' = deleted \cup e.deleted
          /\ lastEnsure' = EnsureRecord(t.contextId, thread, e)
          /\ toSend' = response.content
    /\ streamPc' = "running"
    /\ plugin_notice_seen' = FALSE
    /\ plugin_event' = FALSE
    /\ text_notice_seen' = FALSE
    /\ chunks' = <<>>
    /\ arrived' = <<>>
    /\ yielded' = <<>>
    /\ raised' = "none"
    /\ UNCHANGED <<phase, mcp_plugin, agent, pluginExits, httpx_closed,
                   lastInvoke, prevInvoke>>
    /\ UNCHANGED nbVars

\* _handle_intermediate_message, called by the agent between chunks.
handle_intermediate_message ==
    /\ streamPc = "running"
    /\ IF ~plugin_notice_seen
       THEN plugin_notice_seen' = TRUE /\ plugin_event' = TRUE
       ELSE UNCHANGED <<plugin_notice_seen, plugin_event>>
    /\ UNCHANGED <<streamPc, text_notice_seen, chunks, toSend, arrived, yielded>>
    /\ UNCHANGED <<agentVars, execVars>>
    /\ UNCHANGED nbVars

\* One pass of the `async for chunk` body, for a chunk that carries the next
\* k tokens of text (has_text) or no StreamingTextContent item at all. Only the
\* first text chunk of a reply may carry the empty string.
stream_chunk(has_text, k) ==
    /\ streamPc = "running"
    /\ k <= Len(toSend)
    /\ ~has_text => k = 0
    /\ (has_text /\ k = 0) => chunks = <<>>
    /\ LET text == SubSeq(toSend, 1, k)
           notice1 == IF plugin_event THEN <<ProcessingNotice>> ELSE <<>>
           notice2 == IF has_text /\ ~text_notice_seen
                      THEN <<BuildingNotice>> ELSE <<>>
       IN /\ yield(notice1 \o notice2)
          /\ plugin_event' = FALSE
          /\ text_notice_seen' = (text_notice_seen \/ has_text)
          /\ chunks' = IF has_text THEN Append(chunks, text) ELSE chunks
          /\ arrived' = IF has_text THEN Append(arrived, text) ELSE arrived
          /\ toSend' = SubSeq(toSend, k + 1, Len(toSend))
    /\ UNCHANGED <<streamPc, plugin_notice_seen>>
    /\ UNCHANGED <<agentVars, task, raised>>
    /\ UNCHANGED nbVars

\* The stream is exhausted: `if chunks: yield self._get_agent_response(...)`.
stream_end ==
    /\ streamPc = "running"
    /\ toSend = <<>> \/ arrived = <<>>
    /\ IF chunks # <<>>
       THEN LET r == get_agent_response(sum_chunks(chunks)) IN
            IF r.ok
            THEN yield(<<r.value>>) /\ streamPc' = "done" /\ raised' = "none"
            ELSE /\ streamPc' = "raised"
                 /\ raised' = "ValidationError"
                 /\ UNCHANGED <<yielded, event_queue>>
       ELSE /\ streamPc' = "done"
            /\ UNCHANGED <<yielded, event_queue, raised>>
    /\ UNCHANGED <<plugin_notice_seen, plugin_event, text_notice_seen, chunks,
                   toSend, arrived>>
    /\ UNCHANGED <<agentVars, task>>
    /\ UNCHANGED nbVars

\* execute returns (or the exception leaves it): the generator and its locals
\* are gone and the request's event queue is closed.
execute_return ==
    /\ streamPc \in {"done", "raised"}
    /\ streamPc' = "idle"
    /\ plugin_notice_seen' = FALSE
    /\ plugin_event' = FALSE
    /\ text_notice_seen' = FALSE
    /\ chunks' = <<>>
    /\ toSend' = <<>>
    /\ arrived' = <<>>
    /\ yielded' = <<>>
    /\ task' = None
    /\ event_queue' = <<>>
    /\ UNCHANGED raised
    /\ UNCHANGED agentVars
    /\ UNCHANGED nbVars

(***************************************************************************)
(* A2ALabAgentExecutor.cancel                                              *)
(***************************************************************************)
CancelError == "cancel not supported"

\* As cancel, had it reported the task as canceled before raising.
cancel_enqueues(context) ==
    /\ phase = "running"
    /\ raised' = CancelError
    /\ event_queue' = Append(event_queue,
                             [kind |-> "status", state |-> "canceled", final |-> TRUE,
                              text |-> "", contextId |-> "", taskId |-> ""])
    /\ UNCHANGED task
    /\ UNCHANGED <<agentVars, streamVars>>
    /\ UNCHANGED nbVars

cancel(context) ==
    /\ phase = "running"
    /\ raised' = CancelError
    /\ UNCHANGED <<task, event_queue>>
    /\ UNCHANGED <<agentVars, streamVars>>
    /\ UNCHANGED nbVars


(***************************************************************************)
(* Part II: the notebooks.  A run executes the code cells of one notebook  *)
(* in cell order (Run All); a cell that raises stops the run.              *)
(***************************************************************************)
Notebooks == {"private-connectivity", "mcp-registry", "prompt-flow", "mcp-a2a-agents"}

\* A code cell: what it does and the names it reads from the kernel.
Cell(kind, needs) == [kind |-> kind, needs |-> needs]

\* The code cells of each notebook, top to bottom.
PrivateConnectivityCells ==
    << Cell("init", {}),
       Cell("account", {"params"}),
       Cell("deploy", {"params"}),
       Cell("approve", {"params"}),
       Cell("deploy_again", {"params", "bicep_parameters"}),
       Cell("outputs", {"params"}),
       Cell("request", {"params", "outputs"}),
       Cell("request", {"call_api", "outputs"}),
       Cell("request", {"params", "outputs"}) >>

McpRegistryCells ==
    << Cell("init", {}),
       Cell("account", {"params"}),
       Cell("deploy", {"params"}),
       Cell("outputs", {"params"}) >>

\* prompt-flow with the outputs cell moved above the deployment cell.
PromptFlowCellsOutputsFirst ==
    << Cell("init", {}),
       Cell("tool", {"params"}),
       Cell("pf_outputs", {}),
       Cell("pf_deploy", {"params"}),
       Cell("tool", {}),
       Cell("request", {"params", "outputs"}) >>

PromptFlowCells ==
    << Cell("init", {}),
       Cell("tool", {"params"}),
       Cell("pf_deploy", {"params"}),
       Cell("pf_outputs", {}),
       Cell("tool", {}),
       Cell("tool", {}),
       Cell("tool", {}),
       Cell("tool", {}),
       Cell("tool", {}),
       Cell("tool", {}),
       Cell("request", {"params", "outputs"}) >>

McpA2aAgentsCells ==
    << Cell("init", {}),
       Cell("account", {"params"}),
       Cell("deploy", {"params"}),
       Cell("outputs", {"params"}),
       Cell("tool", {"params", "outputs"}),
       Cell("no_auth_policy", {"params", "subscription_id", "outputs"}),
       Cell("list_tools", {"outputs"}),
       Cell("request", {"params", "outputs"}),
       Cell("request", {"params", "outputs"}),
       Cell("request", {"params", "outputs"}),
       Cell("tool", {"params", "outputs"}),
       Cell("tool", {"params", "outputs"}),
       Cell("tool", {"params", "outputs"}),
       Cell("tool", {"params", "outputs"}),
       Cell("tool", {"params", "outputs"}),
       Cell("tool", {"params", "outputs"}),
       Cell("tool", {"params", "outputs"}),
       Cell("validate_jwt_policy", {"params", "subscription_id", "outputs"}) >>

Cells(n) ==
    CASE n = "private-connectivity" -> PrivateConnectivityCells
      [] n = "mcp-registry" -> McpRegistryCells
      [] n = "prompt-flow" -> PromptFlowCells
      [] n = "mcp-a2a-agents" -> McpA2aAgentsCells

\* The cell the run is about to execute.
Running(kind) ==
    /\ state = "running"
    /\ Cells(nb)[cell].kind = kind

\* The cell reads a name the kernel does not define.
NameError == ~(Cells(nb)[cell].needs \subseteq kernel)

\* The cell returned: the run moves to the next cell, or is done.
Returned ==
    /\ cell' = cell + 1
    /\ state' = IF cell = Len(Cells(nb)) THEN "done" ELSE "running"
    /\ error' = "none"

\* The cell raised: Run All stops here.
Raised(e) ==
    /\ state' = "failed"
    /\ error' = e
    /\ UNCHANGED cell

\* Run All on notebook n, on a restarted kernel or on the kernel the previous
\* run of the same notebook left.
open_notebook(n, restart) ==
    /\ state # "running"
    /\ runs < MaxRuns
    /\ runs' = runs + 1
    /\ nb' = n
    /\ cell' = 1
    /\ state' = "running"
    /\ error' = "none"
    /\ fresh' = (restart \/ nb # n)
    /\ kernel' = IF restart \/ nb # n THEN {} ELSE kernel
    /\ backend_id' = IF restart \/ nb # n THEN "" ELSE backend_id
    /\ bicep_parameters' = IF restart \/ nb # n THEN None ELSE bicep_parameters
    /\ log' = <<>>
    /\ proto' = <<>>
    /\ issued' = <<>>
    /\ lastPfDeploy' = None
    /\ policyAtOpen' = policy
    /\ connected' = None
    /\ UNCHANGED <<openai_resources, policy_file, policy>>
    /\ UNCHANGED serverVars

\* len(openai_resources) as each notebook's init cell is written.
ConfiguredResources ==
    [n \in Notebooks |->
        CASE n = "private-connectivity" -> 3
          [] n = "mcp-registry" -> 0
          [] n = "prompt-flow" -> 2
          [] n = "mcp-a2a-agents" -> 1]

\* "Initialize notebook variables".  In prompt-flow the reader may shorten
\* the list of OpenAI resources, down to the empty list.
cell_init(resources) ==
    /\ Running("init")
    /\ resources <= ConfiguredResources[nb]
    /\ nb # "prompt-flow" => resources = ConfiguredResources[nb]
    /\ openai_resources' = resources
    /\ kernel' = kernel \cup {"params"}
    /\ log' = Append(log, "a")
    /\ Returned
    /\ UNCHANGED <<nb, fresh, runs, backend_id, bicep_parameters, policy_file, policy, proto, issued,
                   lastPfDeploy, policyAtOpen, connected>>
    /\ UNCHANGED serverVars

\* "Verify the Azure CLI and the connected Azure subscription".
cell_account(ok) ==
    /\ Running("account")
    /\ IF NameError
       THEN Raised("NameError") /\ UNCHANGED kernel
       ELSE /\ kernel' = IF ok THEN kernel \cup {"subscription_id"} ELSE kernel
            /\ Returned
    /\ UNCHANGED <<nb, fresh, runs, openai_resources, backend_id, bicep_parameters, policy_file,
                   policy, log, proto, issued, lastPfDeploy, policyAtOpen, connected>>
    /\ UNCHANGED serverVars

\* A deployment command as it was issued.
Deployment(parameters, policy_xml) ==
    [nb |-> nb, access |-> parameters.apimPublicNetworkAccess,
     parameters |-> parameters, policy |-> policy_xml]

\* bicep_parameters as the deployment cell builds it from the names of the
\* init cell; only private-connectivity has apimPublicNetworkAccess.
BicepParameters ==
    [apimSku |-> IF nb = "private-connectivity" THEN "Standardv2" ELSE "Basicv2",
     openAIConfig |-> openai_resources,
     openAIDeploymentName |-> "openai_deployment_name",
     openAIModelName |-> "openai_model_name",
     openAIModelVersion |-> "openai_model_version",
     apimPublicNetworkAccess |-> IF nb = "private-connectivity" THEN "Enabled" ELSE "n/a"]

\* A second deployment cell that sends the parameters as they are.
keep_public_access(p) == p

\* bicep_parameters['parameters']['apimPublicNetworkAccess']['value'] = "Disabled"
disable_public_access(p) == [p EXCEPT !.apimPublicNetworkAccess = "Disabled"]

\* "Create deployment using Bicep": bicep_parameters, params.json,
\* az deployment group create.  The template may or may not put its own
\* policies back on the operations (main.bicep decides).
cell_deploy(resets) ==
    /\ Running("deploy")
    /\ IF NameError
       THEN Raised("NameError")
            /\ UNCHANGED <<kernel, bicep_parameters, log, issued, policy>>
       ELSE /\ kernel' = kernel \cup {"bicep_parameters", "output"}
            /\ bicep_parameters' = BicepParameters
            /\ log' = log \o <<"a", "b">>
            /\ issued' = Append(issued, Deployment(bicep_parameters', <<>>))
            /\ policy' = IF nb = "mcp-a2a-agents" /\ resets
                         THEN [sse |-> DeployedPolicy, messages |-> DeployedPolicy]
                         ELSE policy
            /\ Returned
    /\ UNCHANGED <<nb, fresh, runs, openai_resources, backend_id, policy_file,
                   proto, lastPfDeploy, policyAtOpen, connected>>
    /\ UNCHANGED serverVars

\* private-connectivity: "Disable APIM public network access".
cell_deploy_again ==
    /\ Running("deploy_again")
    /\ IF NameError
       THEN Raised("NameError") /\ UNCHANGED <<kernel, bicep_parameters, log, issued>>
       ELSE /\ kernel' = kernel \cup {"output"}
            /\ bicep_parameters' = disable_public_access(bicep_parameters)
            /\ log' = log \o <<"a", "b">>
            /\ issued' = Append(issued, Deployment(bicep_parameters', <<>>))
            /\ Returned
    /\ UNCHANGED <<nb, fresh, runs, openai_resources, backend_id, policy_file,
                   policy, proto, lastPfDeploy, policyAtOpen, connected>>
    /\ UNCHANGED serverVars

\* How many outputs the cell at hand reads.
OutputsRead ==
    CASE nb = "private-connectivity" /\ Cells(nb)[cell].kind = "approve" -> 1
      [] nb = "private-connectivity" -> 3
      [] nb = "mcp-registry" -> 1
      [] nb = "prompt-flow" -> 7
      [] nb = "mcp-a2a-agents" -> 13

Repeat(steps, n) == [i \in 1..(n * Len(steps)) |-> steps[((i - 1) % Len(steps)) + 1]]

\* "Get the deployment outputs" with mislaid guard: the outputs are read
\* whatever the show command returned.
outputs_protocol_unchecked(ok, n) ==
    <<"show", IF ok THEN "check_passed" ELSE "check_failed">>
        \o Repeat(<<"get_deployment_output">>, n)

\* "Get the deployment outputs": utils.run(az deployment group show), the
\* test `output.success and output.json_data`, utils.get_deployment_output
\* once per output.
outputs_protocol(ok, n) ==
    <<"show", IF ok THEN "check_passed" ELSE "check_failed">>
        \o (IF ok THEN Repeat(<<"get_deployment_output">>, n) ELSE <<>>)

\* prompt-flow: one `! az deployment group show --query ... -o tsv` per
\* output, the command's first line taken as the value.
pf_outputs_protocol(n) == Repeat(<<"show", "read_stdout">>, n)

cell_outputs(ok) ==
    /\ Running("outputs")
    /\ IF NameError
       THEN Raised("NameError") /\ UNCHANGED <<kernel, log, proto>>
       ELSE /\ proto' = outputs_protocol(ok, OutputsRead)
            /\ kernel' = IF "get_deployment_output" \in {proto'[i] : i \in DOMAIN proto'}
                         THEN kernel \cup {"output", "outputs"}
                         ELSE kernel \cup {"output"}
            /\ log' = Append(log, "c")
            /\ Returned
    /\ UNCHANGED <<nb, fresh, runs, openai_resources, backend_id, bicep_parameters, policy_file,
                   policy, issued, lastPfDeploy, policyAtOpen, connected>>
    /\ UNCHANGED serverVars

\* private-connectivity: "Approve the private link connection": read
\* apimResourceId, list the pending connection, approve it.
cell_approve(ok, pending_ok) ==
    /\ Running("approve")
    /\ ~ok => ~pending_ok
    /\ IF NameError
       THEN Raised("NameError") /\ UNCHANGED <<kernel, log, proto>>
       ELSE /\ proto' = outputs_protocol(ok, OutputsRead)
            /\ kernel' = kernel \cup {"output"}
            /\ log' = IF pending_ok THEN log \o <<"c", "approve">> ELSE Append(log, "c")
            /\ Returned
    /\ UNCHANGED <<nb, fresh, runs, openai_resources, backend_id, bicep_parameters, policy_file,
                   policy, issued, lastPfDeploy, policyAtOpen, connected>>
    /\ UNCHANGED serverVars

cell_pf_outputs(ok) ==
    /\ Running("pf_outputs")
    /\ proto' = pf_outputs_protocol(OutputsRead)
    /\ kernel' = (kernel \ {"outputs_are_errors"}) \cup
                     (IF ok THEN {"outputs"} ELSE {"outputs", "outputs_are_errors"})
    /\ log' = Append(log, "c")
    /\ Returned
    /\ UNCHANGED <<nb, fresh, runs, openai_resources, backend_id, bicep_parameters, policy_file,
                   policy, issued, lastPfDeploy, policyAtOpen, connected>>
    /\ UNCHANGED serverVars

\* A replace that stops after the first occurrence.
replace_first(text, old, new) ==
    [i \in DOMAIN text |->
        IF text[i] = old /\ \A j \in 1..(i - 1) : text[j] # old THEN new ELSE text[i]]

\* str.replace on the text of policy.xml.
replace(text, old, new) == [i \in DOMAIN text |-> IF text[i] = old THEN new ELSE text[i]]

openai_backend_pool == "openai-backend-pool"

\* prompt-flow: "Create deployment using Bicep".
cell_pf_deploy(ok) ==
    /\ Running("pf_deploy")
    /\ LET assigned == openai_resources > 0
           bid == IF assigned
                  THEN (IF openai_resources > 1 THEN openai_backend_pool ELSE "openai1")
                  ELSE backend_id
           policy_template_xml == policy_file
           policy_xml == replace(policy_template_xml, "{backend-id}", bid)
           patched_file == policy_xml             \* open("policy.xml", 'w').write(policy_xml)
           restored_file == policy_template_xml   \* ...write(policy_template_xml)
       IN IF NameError \/ ~(assigned \/ "backend_id" \in kernel)
          THEN /\ Raised("NameError")
               /\ kernel' = kernel \cup {"policy_template_xml"}
               /\ lastPfDeploy' = [fresh |-> fresh, resources |-> openai_resources,
                                   error |-> "NameError", patched |-> FALSE,
                                   params_written |-> FALSE, issued |-> FALSE,
                                   succeeded |-> FALSE, before |-> policy_file,
                                   during |-> <<>>]
               /\ UNCHANGED <<backend_id, bicep_parameters, policy_file, log, issued>>
          ELSE /\ backend_id' = bid
               /\ kernel' = kernel \cup {"backend_id", "policy_template_xml",
                                         "policy_xml", "bicep_parameters"}
               /\ log' = log \o <<"a", "b">>
               /\ bicep_parameters' = BicepParameters
               /\ issued' = Append(issued, Deployment(bicep_parameters', patched_file))
               /\ policy_file' = restored_file
               /\ lastPfDeploy' = [fresh |-> fresh, resources |-> openai_resources,
                                   error |-> "none", patched |-> TRUE,
                                   params_written |-> TRUE, issued |-> TRUE,
                                   succeeded |-> ok, before |-> policy_file,
                                   during |-> patched_file]
               /\ Returned
    /\ UNCHANGED <<nb, fresh, runs, openai_resources, policy, proto, policyAtOpen,
                   connected>>
    /\ UNCHANGED serverVars

\* A cell that runs command-line tools or prints (builds, container app
\* updates, pf commands).
cell_tool ==
    /\ Running("tool")
    /\ IF NameError THEN Raised("NameError") ELSE Returned
    /\ UNCHANGED <<nb, kernel, fresh, runs, openai_resources, backend_id, bicep_parameters, policy_file,
                   policy, log, proto, issued, lastPfDeploy, policyAtOpen, connected>>
    /\ UNCHANGED serverVars

\* A cell that sends requests to the deployed endpoint and prints the
\* results.  private-connectivity's first test cell defines call_api before
\* it calls it.
cell_request ==
    /\ Running("request")
    /\ kernel' = IF nb = "private-connectivity" THEN kernel \cup {"call_api"} ELSE kernel
    /\ IF NameError
       THEN Raised("NameError") /\ UNCHANGED log
       ELSE /\ log' = Append(log, "d")
            /\ IF "outputs_are_errors" \in kernel
               THEN Raised("RequestException")
               ELSE Returned
    /\ UNCHANGED <<nb, fresh, runs, openai_resources, backend_id, bicep_parameters, policy_file,
                   policy, proto, issued, lastPfDeploy, policyAtOpen, connected>>
    /\ UNCHANGED serverVars

\* utils.update_api_operation_policy: put the policy on one operation of
\* the github-mcp API.
update_api_operation_policy(p, operation_id, policy_xml) ==
    [p EXCEPT ![operation_id] = policy_xml]

\* A no-auth cell that forgets the messages operation.
no_auth_policy_sse_only(p) ==
    update_api_operation_policy(p, "sse", "no-auth")

\* The cell before the connection test: no-auth-client-policy.xml on sse
\* and on messages.
no_auth_policy(p) ==
    update_api_operation_policy(
        update_api_operation_policy(p, "sse", "no-auth"), "messages", "no-auth")

\* The last cell: auth-client-policy.xml (validate-jwt) on sse and messages.
validate_jwt_policy(p) ==
    update_api_operation_policy(
        update_api_operation_policy(p, "sse", "validate-jwt"), "messages", "validate-jwt")

cell_no_auth_policy ==
    /\ Running("no_auth_policy")
    /\ IF NameError
       THEN Raised("NameError") /\ UNCHANGED policy
       ELSE policy' = no_auth_policy(policy) /\ Returned
    /\ UNCHANGED <<nb, kernel, fresh, runs, openai_resources, backend_id, bicep_parameters, policy_file,
                   log, proto, issued, lastPfDeploy, policyAtOpen, connected>>
    /\ UNCHANGED serverVars

cell_validate_jwt_policy ==
    /\ Running("validate_jwt_policy")
    /\ IF NameError
       THEN Raised("NameError") /\ UNCHANGED policy
       ELSE policy' = validate_jwt_policy(policy) /\ Returned
    /\ UNCHANGED <<nb, kernel, fresh, runs, openai_resources, backend_id, bicep_parameters, policy_file,
                   log, proto, issued, lastPfDeploy, policyAtOpen, connected>>
    /\ UNCHANGED serverVars

\* "Test the connection to the MCP servers and List Tools": list_tools
\* opens an SSE session to each server; a refused connection is printed,
\* not raised.
cell_list_tools ==
    /\ Running("list_tools")
    /\ IF NameError
       THEN Raised("NameError") /\ UNCHANGED <<connected, log>>
       ELSE /\ connected' = policy
            /\ log' = Append(log, "d")
            /\ Returned
    /\ UNCHANGED <<nb, kernel, fresh, runs, openai_resources, backend_id, bicep_parameters, policy_file,
                   policy, proto, issued, lastPfDeploy, policyAtOpen>>
    /\ UNCHANGED serverVars

(***************************************************************************)
(* Part I: the properties of the agent server.                             *)
(***************************************************************************)

\* C1: invoke is idempotent - two invoke calls with the same
\* (user_input, session_id) pair give the same answer.
C1_InvokeIdempotent ==
    (prevInvoke # None /\ lastInvoke # None
       /\ prevInvoke.user_input = lastInvoke.user_input
       /\ prevInvoke.session_id = lastInvoke.session_id)
    => prevInvoke.answer = lastInvoke.answer

\* C2: when _ensure_thread_exists has returned for session s - the moment
\* invoke or stream hands the thread to the agent - the thread exists and its
\* id is s; a thread that already had id s is the same object still and no
\* thread was deleted.
C2_EnsureThreadExists ==
    lastEnsure # None =>
        /\ lastEnsure.after # None
        /\ lastEnsure.after.id = lastEnsure.session
        /\ (lastEnsure.before # None /\ lastEnsure.before.id = lastEnsure.session)
             => /\ lastEnsure.after.oid = lastEnsure.before.oid
                /\ lastEnsure.deleted = {}

\* A request for the session the agent's thread already belongs to, from
\* stream.
C2_Witness ==
    /\ streamPc = "running"
    /\ lastEnsure # None
    /\ lastEnsure.before # None
    /\ lastEnsure.before.id = lastEnsure.session
    /\ thread.oid = lastEnsure.before.oid
    /\ Len(thread.history) = 2

\* C3: for every structured response, _get_agent_response returns a
\* dictionary of exactly content, is_task_complete and require_user_input:
\* 'completed' gives (true, false), 'input_required' and 'error' give
\* (false, true), content is the response's message, and the two flags are
\* never both true.
C3_AgentResponseShape ==
    lastInvoke # None =>
        LET reply == lastInvoke.reply
            answer == lastInvoke.answer
        IN /\ answer.ok
           /\ DOMAIN answer.value = {"content", "is_task_complete", "require_user_input"}
           /\ reply.status = "completed"
                => answer.value.is_task_complete /\ ~answer.value.require_user_input
           /\ reply.status \in {"input_required", "error"}
                => ~answer.value.is_task_complete /\ answer.value.require_user_input
           /\ answer.value.content = reply.message
           /\ ~(answer.value.is_task_complete /\ answer.value.require_user_input)

\* invoke has answered a reply of status 'error'.
C3_Witness ==
    /\ lastInvoke # None
    /\ lastInvoke.reply.status = "error"
    /\ prevInvoke # None
    /\ prevInvoke.reply.status = "completed"

\* The text of the fragments, in the order they arrived.
RECURSIVE Concat(_)
Concat(fragments) ==
    IF fragments = <<>> THEN <<>> ELSE Head(fragments) \o Concat(Tail(fragments))

IsProgress(item) == ~item.is_task_complete /\ ~item.require_user_input

C5_StartupShutdown ==
    /\ phase = "running" => (mcp_plugin # None /\ mcp_plugin.open /\ agent # None)
    /\ phase = "stopped" =>
           /\ thread = None
           /\ \A oid \in 1..(nextOid - 1) : oid \in deleted
           /\ mcp_plugin # None /\ ~mcp_plugin.open
           /\ pluginExits = 1
           /\ httpx_closed

\* The server was shut down after it served requests of two sessions.
C5_Witness ==
    /\ phase = "stopped"
    /\ calls >= 2
    /\ nextOid >= 3

\* C6: cancel fails with 'cancel not supported' for every context, and
\* enqueues no event and changes neither the agent's thread nor the task.
C6_CancelNotSupported ==
    [][(\E c \in KnownTasks \cup {None} : cancel(c))
          => (raised' = CancelError
              /\ UNCHANGED <<event_queue, task, thread, deleted, nextOid>>)]_vars

\* cancel was called while a request was being executed.
C6_Witness ==
    /\ raised = CancelError
    /\ streamPc = "running"
    /\ event_queue # <<>>
    /\ thread # None

(***************************************************************************)
(* Part II: the properties of the notebooks.                               *)
(***************************************************************************)
Has(p) == \E i \in DOMAIN log : log[i] = p
IsPhase(p) == p \in {"a", "b", "c", "d"}
Before(p, i) == \E j \in 1..(i - 1) : log[j] = p

\* Each phase is started only after the phase before it has been performed.
PhaseOrder ==
    \A i \in DOMAIN log :
        /\ log[i] = "b" => Before("a", i)
        /\ log[i] = "c" => Before("b", i)
        /\ log[i] = "d" => Before("c", i)

\* C7 as stated: each notebook performs (a) parameters, (b) deployment,
\* (c) outputs, (d) HTTP requests in this order, and every notebook
\* reaches (d).
C7_EveryNotebookReachesRequests ==
    /\ PhaseOrder
    /\ state = "done" => Has("d")

\* C7, amended: in every notebook a phase starts only after the earlier
\* phases were performed; a run of private-connectivity, prompt-flow or
\* mcp-a2a-agents that completes has reached (d), private-connectivity
\* deploying and reading outputs twice on the way; mcp-registry ends after
\* (c) and never reaches (d).
C7_PhasesInOrder ==
    /\ PhaseOrder
    /\ (state = "done" /\ nb # "mcp-registry") => Has("d")
    /\ nb = "mcp-registry" => ~Has("d")
    /\ (state = "done" /\ nb = "mcp-registry") => Has("c")
    /\ (state = "done" /\ nb = "private-connectivity")
          => SelectSeq(log, IsPhase) = <<"a", "a", "b", "c", "a", "b", "c", "d", "d", "d">>

\* The registry notebook has run all its cells; so has, in an earlier run,
\* a notebook that reaches (d).
C7_Witness ==
    /\ state = "done"
    /\ nb = "mcp-registry"
    /\ SelectSeq(log, IsPhase) = <<"a", "a", "b", "c">>
    /\ runs >= 2

\* The protocol of the helpers: show the deployment, check the result, and
\* read outputs through get_deployment_output only when the check passed.
Protocol(p) ==
    /\ Len(p) >= 2
    /\ p[1] = "show"
    /\ p[2] \in {"check_passed", "check_failed"}
    /\ \A i \in 3..Len(p) : p[i] = "get_deployment_output" /\ p[2] = "check_passed"

\* C8 as stated: every notebook obtains its deployment outputs by the same
\* protocol - show, check success and JSON, then get_deployment_output.
C8_SameProtocolEverywhere == proto # <<>> => Protocol(proto)

\* C8, amended: private-connectivity, mcp-registry and mcp-a2a-agents
\* follow the protocol; prompt-flow runs the show command once per output
\* and takes the command's standard output as the value, with no check and
\* no helper.
C8_OutputsProtocol ==
    proto # <<>> =>
        IF nb = "prompt-flow"
        THEN \A i \in DOMAIN proto :
                proto[i] = IF i % 2 = 1 THEN "show" ELSE "read_stdout"
        ELSE Protocol(proto)

\* prompt-flow has read its seven outputs from a show command that failed.
C8_Witness ==
    /\ nb = "prompt-flow"
    /\ Len(proto) = 14
    /\ "outputs_are_errors" \in kernel
    /\ state = "failed"
    /\ error = "RequestException"

\* C9: with openai_resources empty on a fresh kernel, the prompt-flow
\* deployment cell patches policy.xml, writes params.json and issues the
\* deployment command without raising.
C9_EmptyResources ==
    (lastPfDeploy # None /\ lastPfDeploy.fresh /\ lastPfDeploy.resources = 0)
    => /\ lastPfDeploy.error = "none"
       /\ lastPfDeploy.patched
       /\ lastPfDeploy.params_written
       /\ lastPfDeploy.issued

\* C10: in every run of mcp-a2a-agents, a re-run after validate-jwt was
\* applied included, the policy in force on github-mcp sse and messages at
\* the moment list_tools connects is the no-auth policy.
C10_NoAuthWhenConnecting ==
    connected # None => (connected.sse = "no-auth" /\ connected.messages = "no-auth")

\* list_tools has connected in a run that started with validate-jwt on both
\* operations.
C10_Witness ==
    /\ nb = "mcp-a2a-agents"
    /\ runs >= 2
    /\ policyAtOpen = [sse |-> "validate-jwt", messages |-> "validate-jwt"]
    /\ connected # None

\* How many times step p was started before position i of the log.
Count(p, i) == Cardinality({j \in 1..(i - 1) : log[j] = p})

\* C11: private-connectivity in cell order - the first deployment is issued
\* with apimPublicNetworkAccess Enabled; the private-link approval is
\* attempted after the first deployment and before the second; the second
\* deployment is issued with Disabled and every other parameter as in the
\* first; the Front Door test and the public-network test are issued only
\* after the second deployment command has returned.
C11_PrivateConnectivityOrder ==
    nb = "private-connectivity" =>
        /\ Len(issued) <= 2
        /\ Len(issued) >= 1 => issued[1].access = "Enabled"
        /\ Len(issued) = 2 =>
              /\ issued[2].access = "Disabled"
              /\ issued[2].parameters =
                    [issued[1].parameters EXCEPT !.apimPublicNetworkAccess = "Disabled"]
        /\ \A i \in DOMAIN log :
              /\ log[i] = "approve" => Count("b", i) = 1
              /\ log[i] = "d" => (Count("b", i) = 2 /\ Len(issued) = 2)

\* A second run of private-connectivity, on the kernel the first left, has
\* approved the connection, deployed twice and run all three tests.
C11_Witness ==
    /\ nb = "private-connectivity"
    /\ state = "done"
    /\ ~fresh
    /\ Has("approve")
    /\ Len(issued) = 2
    /\ Count("d", Len(log) + 1) = 3

\* The text with every placeholder replaced by the backend id.
Patched(text, id) ==
    [i \in DOMAIN text |-> IF text[i] = "{backend-id}" THEN id ELSE text[i]]

\* C12: the prompt-flow deployment cell patches policy.xml only for the
\* duration of the deployment - while the deployment command runs the file
\* is the template with every {backend-id} replaced by the backend id (the
\* pool name for more than one OpenAI resource, the resource's name for
\* exactly one); after the cell the file holds the text it held before,
\* whether the deployment command succeeded or failed.
C12_PolicyPatchedOnlyDuringDeployment ==
    lastPfDeploy # None =>
        /\ policy_file = lastPfDeploy.before
        /\ (lastPfDeploy.error = "none" /\ lastPfDeploy.resources > 1)
              => lastPfDeploy.during = Patched(lastPfDeploy.before, "openai-backend-pool")
        /\ (lastPfDeploy.error = "none" /\ lastPfDeploy.resources = 1)
              => lastPfDeploy.during = Patched(lastPfDeploy.before, "openai1")
        /\ lastPfDeploy.error = "none"
              => /\ issued[Len(issued)].policy = lastPfDeploy.during
                 /\ \A i \in DOMAIN lastPfDeploy.during :
                        lastPfDeploy.during[i] # "{backend-id}"

\* The deployment command of a prompt-flow run with one OpenAI resource
\* failed; the file carried that resource's name meanwhile.
C12_Witness ==
    /\ lastPfDeploy # None
    /\ lastPfDeploy.error = "none"
    /\ ~lastPfDeploy.succeeded
    /\ lastPfDeploy.resources = 1
    /\ lastPfDeploy.during # lastPfDeploy.before
    /\ policy_file = Template
    /\ state = "done"

Next ==
    \/ startup
    \/ shutdown
    \/ \E u \in Inputs, s \in Sessions : invoke(u, s)
    \/ \E u \in Inputs, t \in KnownTasks \cup {None}, s \in Sessions : execute(u, t, s)
    \/ handle_intermediate_message
    \/ \E b \in BOOLEAN, k \in 0..MaxChunk : stream_chunk(b, k)
    \/ stream_end
    \/ execute_return
    \/ \E c \in KnownTasks \cup {None} : cancel(c)

Spec == Init /\ [][Next]_vars

\* The notebooks: any of them is run, cell after cell.
NextNotebooks ==
    \/ \E n \in Notebooks, restart \in BOOLEAN : open_notebook(n, restart)
    \/ \E resources \in 0..3 : cell_init(resources)
    \/ \E ok \in BOOLEAN : cell_account(ok)
    \/ \E resets \in BOOLEAN : cell_deploy(resets)
    \/ cell_deploy_again
    \/ \E ok \in BOOLEAN : cell_outputs(ok)
    \/ \E ok \in BOOLEAN, pending_ok \in BOOLEAN : cell_approve(ok, pending_ok)
    \/ \E ok \in BOOLEAN : cell_pf_deploy(ok)
    \/ \E ok \in BOOLEAN : cell_pf_outputs(ok)
    \/ cell_tool
    \/ cell_request
    \/ cell_no_auth_policy
    \/ cell_list_tools
    \/ cell_validate_jwt_policy

SpecNotebooks == Init /\ [][NextNotebooks]_vars

=============================================================================
